---- MODULE Spec2Model ----
(***************************************************************************)
(* Model of ascent_blueprint_architect.cpp: the distributed field queries  *)
(* of Ascent's expression runtime.  A fixed group of MPI ranks ("workers") *)
(* each own an ordered list of domains and collectively invoke one query.  *)
(* Every rank runs the query's local loop, then joins the query's          *)
(* collective exchanges (MPI_Allreduce / MPI_Bcast), which complete only   *)
(* when every rank of the communicator has reached them.                   *)
(*                                                                         *)
(* Field values are small integers (exactly representable as doubles), and *)
(* positions are kept in half units (twice the coordinate) so that the     *)
(* half-spacing offset of a cell centre stays an integer.                  *)
(***************************************************************************)
EXTENDS Integers, Sequences, FiniteSets, TLC

\* ------------------------------------------------------------------ bounds
NumRanks == 2          \* largest communicator size
MaxDomains == 3        \* largest number of domains in the whole dataset

\* std::numeric_limits<double>::max(); every field value is below it
DBL_MAX == 1000

VARIABLES
  mpi,      \* TRUE iff the build defines ASCENT_MPI_ENABLED
  size,     \* number of ranks of the communicator (1 without MPI)
  dataset,  \* the global, ordered sequence of domains, each with its owner rank
  op,       \* the query every rank invokes, with its arguments
  pc,       \* per rank: "start", "coll1".."coll3" (blocked in the k-th
            \* collective), "returned", "error" (the rank threw)
  lv,       \* per rank: the local variables of the query
  ret       \* per rank: the returned value

vars == <<mpi, size, dataset, op, pc, lv, ret>>

Ranks == 0..(NumRanks - 1)
Live == 0..(size - 1)

NoVal == [none |-> TRUE]

\* ------------------------------------------------------------ the dataset
\* dataset.child(i) of rank r, in local iteration order
LocalDomains(r) == SelectSeq(dataset, LAMBDA d : d.owner = r)

\* The part of a domain that the queries read.  has: "fields/<field>" exists;
\* hastopo: "topologies/<topo>" exists; topo: "fields/<field>/topology", a
\* string kept as the sequence of its characters.
\* coords: the coordset of topology <topo>: its type, whether it has a third
\* axis (dims/k or values/z) and the type of its arrays.
Blank ==
  [has |-> FALSE, assoc |-> "vertex", dtype |-> "float64", vals |-> <<>>,
   topo |-> <<>>, hastopo |-> FALSE,
   coords |-> [type |-> "uniform", is3d |-> FALSE, dtype |-> "float64"]]

\* state/domain_id of the i-th domain of the dataset: unique
DomainId(i) == i - 1

MkDomain(c, o, id) ==
  [id |-> id, owner |-> o, has |-> c.has, assoc |-> c.assoc,
   dtype |-> c.dtype, vals |-> c.vals, topo |-> c.topo, hastopo |-> c.hastopo,
   coords |-> c.coords]

StartState ==
  /\ pc = [r \in Ranks |-> IF r \in Live THEN "start" ELSE "absent"]
  /\ lv = [r \in Ranks |-> NoVal]
  /\ ret = [r \in Ranks |-> NoVal]

\* All datasets of at most MaxDomains domains with contents from Contents,
\* every distribution of them over the ranks, and one query of Ops.
InitWith(Ops, Contents) ==
  /\ mpi \in BOOLEAN
  /\ size \in 1..NumRanks
  /\ (mpi \/ size = 1)
  /\ op \in Ops
  /\ \E n \in 0..MaxDomains :
       \E c \in [1..n -> Contents], o \in [1..n -> Live] :
         dataset = [i \in 1..n |-> MkDomain(c[i], o[i], DomainId(i))]
  /\ StartState

AllAt(label) == \A r \in Live : pc[r] = label

\* ------------------------------------------------- trusted array reductions
\* array_min / array_max of one values array: the extremum and its 0-based
\* position.  The arrays of the model hold pairwise distinct values.
array_min(vals) ==
  LET i == CHOOSE k \in 1..Len(vals) : \A m \in 1..Len(vals) : vals[k] <= vals[m]
  IN [value |-> vals[i], index |-> i - 1]

array_max(vals) ==
  LET i == CHOOSE k \in 1..Len(vals) : \A m \in 1..Len(vals) : vals[k] >= vals[m]
  IN [value |-> vals[i], index |-> i - 1]

RECURSIVE SeqSum(_)
SeqSum(s) == IF s = <<>> THEN 0 ELSE Head(s) + SeqSum(Tail(s))

\* array_sum of one values array: the sum and the number of values
array_sum(vals) == [value |-> SeqSum(vals), count |-> Len(vals)]

\* ------------------------------------------------------ TopologyIndexer
logical_index_2d(vert_index, dims) ==
  <<vert_index % dims[1], vert_index \div dims[1], 0>>

\* logical_index_3d taking the j index modulo dims[2] of the C array
logical_index_3d_ModuloK(vert_index, dims) ==
  <<vert_index % dims[1],
    (vert_index \div dims[1]) % dims[3],
    vert_index \div (dims[1] * dims[2])>>

logical_index_3d(vert_index, dims) ==
  <<vert_index % dims[1],
    (vert_index \div dims[1]) % dims[2],
    vert_index \div (dims[1] * dims[2])>>

\* ---------------------------------------------------- CoordinateResolver
\* Every domain of the model carries one uniform 2D topology: 3 x 2 vertices,
\* unit spacing, origin (10 * domain_id, 0).  UniformCoords::populate.
UniformCoords(dom) ==
  [m_origin |-> <<10 * dom.id, 0, 0>>, m_spacing |-> <<1, 1, 1>>,
   m_dims |-> <<3, 2, 1>>, m_is_2d |-> TRUE]

\* position of a vertex, in half units
get_uniform_vert(coords, index) ==
  LET logical_index == IF coords.m_is_2d
                       THEN logical_index_2d(index, coords.m_dims)
                       ELSE logical_index_3d(index, coords.m_dims)
  IN [k \in 1..3 |->
        2 * (coords.m_origin[k] + logical_index[k] * coords.m_spacing[k])]

\* position of a cell centre, in half units
get_uniform_element(coords, index) ==
  LET element_dims == [k \in 1..3 |-> coords.m_dims[k] - 1]
      logical_index == IF coords.m_is_2d
                       THEN logical_index_2d(index, element_dims)
                       ELSE logical_index_3d(index, element_dims)
  IN [k \in 1..3 |->
        2 * (coords.m_origin[k] + logical_index[k] * coords.m_spacing[k])
          + coords.m_spacing[k]]

vert_location(dom, index) == get_uniform_vert(UniformCoords(dom), index)

element_location(dom, index) == get_uniform_element(UniformCoords(dom), index)

\* --------------------------------------------------------- MPI collectives
\* MPI_MINLOC mistaken for MPI_MAXLOC
MPI_MINLOC_AsMax(c) ==
  LET v == CHOOSE x \in {c[r].value : r \in Live} :
             \A r \in Live : x >= c[r].value
      w == CHOOSE r \in Live :
             c[r].value = v /\ \A q \in Live : c[q].value = v => r <= q
  IN [value |-> v, rank |-> w]

\* MPI_MINLOC over the (value, rank) pairs of the live ranks: the least
\* value, and the least rank among those that contributed it.
MPI_MINLOC(c) ==
  LET v == CHOOSE x \in {c[r].value : r \in Live} :
             \A r \in Live : x <= c[r].value
      w == CHOOSE r \in Live :
             c[r].value = v /\ \A q \in Live : c[q].value = v => r <= q
  IN [value |-> v, rank |-> w]

\* MPI_MAXLOC: the greatest value, and the least rank among its contributors.
MPI_MAXLOC(c) ==
  LET v == CHOOSE x \in {c[r].value : r \in Live} :
             \A r \in Live : x >= c[r].value
      w == CHOOSE r \in Live :
             c[r].value = v /\ \A q \in Live : c[q].value = v => r <= q
  IN [value |-> v, rank |-> w]

RECURSIVE SumOver(_, _)
SumOver(f, S) ==
  IF S = {} THEN 0 ELSE LET r == CHOOSE x \in S : TRUE
                        IN f[r] + SumOver(f, S \ {r})

\* MPI_SUM of one integer per live rank
MPI_SUM(c) == SumOver(c, Live)

\* ============================================================ field_min/max
Advance(from, to) == [r \in Ranks |-> IF pc[r] = from THEN to ELSE pc[r]]

\* the loop of field_min over the rank's domains ds, from the i-th on
RECURSIVE ScanMin(_, _, _)
ScanMin(ds, i, acc) ==
  IF i > Len(ds) THEN acc
  ELSE IF ds[i].has
       THEN LET res == array_min(ds[i].vals)
            IN IF res.value < acc.value
               THEN ScanMin(ds, i + 1,
                            [value |-> res.value, index |-> res.index,
                             domain |-> i - 1, domain_id |-> ds[i].id])
               ELSE ScanMin(ds, i + 1, acc)
       ELSE ScanMin(ds, i + 1, acc)

\* the loop of field_max with ">=" for ">": the last domain attaining the
\* maximum wins
RECURSIVE ScanMax_LastWins(_, _, _)
ScanMax_LastWins(ds, i, acc) ==
  IF i > Len(ds) THEN acc
  ELSE IF ds[i].has
       THEN LET res == array_max(ds[i].vals)
            IN IF res.value >= acc.value
               THEN ScanMax_LastWins(ds, i + 1,
                            [value |-> res.value, index |-> res.index,
                             domain |-> i - 1, domain_id |-> ds[i].id])
               ELSE ScanMax_LastWins(ds, i + 1, acc)
       ELSE ScanMax_LastWins(ds, i + 1, acc)

\* the loop of field_max
RECURSIVE ScanMax(_, _, _)
ScanMax(ds, i, acc) ==
  IF i > Len(ds) THEN acc
  ELSE IF ds[i].has
       THEN LET res == array_max(ds[i].vals)
            IN IF res.value > acc.value
               THEN ScanMax(ds, i + 1,
                            [value |-> res.value, index |-> res.index,
                             domain |-> i - 1, domain_id |-> ds[i].id])
               ELSE ScanMax(ds, i + 1, acc)
       ELSE ScanMax(ds, i + 1, acc)

MinStart == [value |-> DBL_MAX, index |-> -1, domain |-> -1, domain_id |-> -1]
MaxStart == [value |-> -DBL_MAX, index |-> -1, domain |-> -1, domain_id |-> -1]

\* dataset.child(0)["fields/<field>/association"] and dataset.child(domain)
\* are reads of a const conduit tree: they fail (conduit throws) when the
\* rank has no child 0, when child 0 lacks the path, or when no domain won
\* (domain = -1); the rank then never reaches the reduction.
CanLocate(ds, acc) ==
  /\ Len(ds) > 0
  /\ ds[1].has
  /\ acc.domain >= 0

\* the location of the local winner, by the association of child(0)
Locate(ds, acc) ==
  LET assoc_str == ds[1].assoc
  IN IF assoc_str = "vertex"
     THEN vert_location(ds[acc.domain + 1], acc.index)
     ELSE element_location(ds[acc.domain + 1], acc.index)

\* the code of field_min / field_max between the loop and the reduction
ExtremumAfterLoop(r, ds, acc) ==
  IF ~CanLocate(ds, acc)
  THEN /\ pc' = [pc EXCEPT ![r] = "error"]
       /\ UNCHANGED <<lv, ret>>
  ELSE IF mpi
       THEN /\ lv' = [lv EXCEPT ![r] =
                        [value |-> acc.value, rank |-> r,
                         domain_id |-> acc.domain_id, loc |-> Locate(ds, acc)]]
            /\ pc' = [pc EXCEPT ![r] = "coll1"]
            /\ UNCHANGED ret
       ELSE /\ ret' = [ret EXCEPT ![r] =
                         [rank |-> 0, domain_id |-> acc.domain_id,
                          position |-> Locate(ds, acc), value |-> acc.value]]
            /\ pc' = [pc EXCEPT ![r] = "returned"]
            /\ UNCHANGED lv

field_min_local(r) ==
  /\ op.name = "field_min"
  /\ pc[r] = "start"
  /\ ExtremumAfterLoop(r, LocalDomains(r), ScanMin(LocalDomains(r), 1, MinStart))
  /\ UNCHANGED <<mpi, size, dataset, op>>

field_max_local(r) ==
  /\ op.name = "field_max"
  /\ pc[r] = "start"
  /\ ExtremumAfterLoop(r, LocalDomains(r), ScanMax(LocalDomains(r), 1, MaxStart))
  /\ UNCHANGED <<mpi, size, dataset, op>>

\* MPI_Allreduce(&minloc, &minloc_res, 1, MPI_DOUBLE_INT, MPI_MINLOC)
field_min_allreduce ==
  /\ op.name = "field_min"
  /\ AllAt("coll1")
  /\ LET minloc_res == MPI_MINLOC(lv)
     IN lv' = [r \in Ranks |->
                 IF r \in Live
                 THEN [lv[r] EXCEPT !.value = minloc_res.value,
                                    !.rank = minloc_res.rank]
                 ELSE lv[r]]
  /\ pc' = Advance("coll1", "coll2")
  /\ UNCHANGED <<mpi, size, dataset, op, ret>>

\* MPI_Allreduce(&maxloc, &maxloc_res, 1, MPI_DOUBLE_INT, MPI_MAXLOC)
field_max_allreduce ==
  /\ op.name = "field_max"
  /\ AllAt("coll1")
  /\ LET maxloc_res == MPI_MAXLOC(lv)
     IN lv' = [r \in Ranks |->
                 IF r \in Live
                 THEN [lv[r] EXCEPT !.value = maxloc_res.value,
                                    !.rank = maxloc_res.rank]
                 ELSE lv[r]]
  /\ pc' = Advance("coll1", "coll2")
  /\ UNCHANGED <<mpi, size, dataset, op, ret>>

\* MPI_Bcast(ploc, 3, MPI_DOUBLE, root): every rank receives the root's loc
extremum_bcast_loc ==
  /\ op.name \in {"field_min", "field_max"}
  /\ AllAt("coll2")
  /\ lv' = [r \in Ranks |->
              IF r \in Live THEN [lv[r] EXCEPT !.loc = lv[lv[r].rank].loc]
              ELSE lv[r]]
  /\ pc' = Advance("coll2", "coll3")
  /\ UNCHANGED <<mpi, size, dataset, op, ret>>

\* MPI_Bcast(&domain_id, 1, MPI_INT, root), then the result node is filled
extremum_bcast_id ==
  /\ op.name \in {"field_min", "field_max"}
  /\ AllAt("coll3")
  /\ ret' = [r \in Ranks |->
               IF r \in Live
               THEN [rank |-> lv[r].rank,
                     domain_id |-> lv[lv[r].rank].domain_id,
                     position |-> lv[r].loc, value |-> lv[r].value]
               ELSE ret[r]]
  /\ pc' = Advance("coll3", "returned")
  /\ UNCHANGED <<mpi, size, dataset, op, lv>>

Assocs == {"vertex", "element"}

\* the domains the extremum queries are run on
ExtContents ==
  {Blank}
  \cup {[Blank EXCEPT !.has = TRUE, !.assoc = "vertex", !.vals = v] :
          v \in {<<1>>, <<2, 1>>}}
  \cup {[Blank EXCEPT !.has = TRUE, !.assoc = "element", !.vals = v] :
          v \in {<<2>>, <<1, 2>>}}

InitExtremum ==
  InitWith({[name |-> "field_min"], [name |-> "field_max"]}, ExtContents)

NextExtremum ==
  \/ \E r \in Live : field_min_local(r)
  \/ \E r \in Live : field_max_local(r)
  \/ field_min_allreduce
  \/ field_max_allreduce
  \/ extremum_bcast_loc
  \/ extremum_bcast_id

SpecExtremum == InitExtremum /\ [][NextExtremum]_vars

\* ------------------------------------------- what the dataset really holds
SetMin(S) == CHOOSE x \in S : \A y \in S : x <= y
SetMax(S) == CHOOSE x \in S : \A y \in S : x >= y
Range(f) == {f[k] : k \in DOMAIN f}

Holding == {i \in 1..Len(dataset) : dataset[i].has}
FieldValues == UNION {Range(dataset[i].vals) : i \in Holding}
RankValues(r) ==
  UNION {Range(dataset[i].vals) : i \in {j \in Holding : dataset[j].owner = r}}

IsMin == op.name = "field_min"
Extremum(S) == IF IsMin THEN SetMin(S) ELSE SetMax(S)

\* every rank has a domain and its first domain holds the field
FirstDomainsHold ==
  \A r \in Live : Len(LocalDomains(r)) > 0 /\ LocalDomains(r)[1].has

\* the ranks whose local extremum is the global one
TiedRanks ==
  {r \in Live : RankValues(r) # {}
                /\ Extremum(RankValues(r)) = Extremum(FieldValues)}

\* 1-based local position of the first domain of rank r attaining its extremum
FirstAttaining(r) ==
  LET ds == LocalDomains(r)
  IN SetMin({i \in 1..Len(ds) :
               ds[i].has /\ Extremum(RankValues(r)) \in Range(ds[i].vals)})

\* (C1) field_min / field_max called by all ranks, every rank with a first
\* domain that holds the field: no rank throws, and once the ranks have
\* returned they all hold the same (value, rank, domain_id, position), the
\* value being the extremum of the field over all domains of all ranks.
C1_SameGlobalExtremum ==
  FirstDomainsHold =>
    /\ \A r \in Live : pc[r] # "error"
    /\ AllAt("returned") =>
         \A r \in Live :
           /\ ret[r] = ret[0]
           /\ ret[r].value = Extremum(FieldValues)

\* two ranks, the extremum held by the second only, and all have returned
C1_Witness ==
  /\ FirstDomainsHold
  /\ size = NumRanks
  /\ AllAt("returned")
  /\ TiedRanks = {size - 1}
  /\ ret[0].rank = size - 1

\* (C2) field_min / field_max when some domain somewhere holds the field: a
\* rank with no domain, or whose first domain lacks the field, still joins
\* the collectives; no rank throws and whoever returns has the global
\* extremum.
C2_NoRankAborts ==
  Holding # {} =>
    /\ \A r \in Live : pc[r] # "error"
    /\ \A r \in Live : pc[r] = "returned" => ret[r].value = Extremum(FieldValues)

\* (C3) On equal extreme values the returned rank is the lowest tied rank,
\* and domain_id and position are those of that rank's first domain, in
\* local order, attaining the extremum.
C3_LowestRankWinsTies ==
  AllAt("returned") =>
    LET w == SetMin(TiedRanks)
        ds == LocalDomains(w)
        i == FirstAttaining(w)
        k == CHOOSE j \in 1..Len(ds[i].vals) :
               ds[i].vals[j] = Extremum(FieldValues)
    IN \A r \in Live :
         /\ ret[r].rank = w
         /\ ret[r].domain_id = ds[i].id
         /\ ret[r].position = Locate(ds, [domain |-> i - 1, index |-> k - 1])

\* all ranks tie, the lowest rank holds the extremum in two domains and its
\* winning domain has a larger domain_id than a tied domain of another rank
C3_Witness ==
  /\ AllAt("returned")
  /\ size = NumRanks
  /\ TiedRanks = Live
  /\ \E i, j \in Holding :
       /\ i < j
       /\ dataset[i].owner = 0 /\ dataset[j].owner = 0
       /\ Extremum(FieldValues) \in Range(dataset[i].vals)
       /\ Extremum(FieldValues) \in Range(dataset[j].vals)
       /\ ret[1].domain_id = dataset[i].id
  /\ \E m \in Holding :
       /\ dataset[m].owner # 0
       /\ Extremum(FieldValues) \in Range(dataset[m].vals)
       /\ dataset[m].id < ret[0].domain_id

\* ================================================================ field_sum
\* the loop of field_sum with "count = a_count" for "count += a_count"
RECURSIVE ScanSum_CountAssigned(_, _, _)
ScanSum_CountAssigned(ds, i, acc) ==
  IF i > Len(ds) THEN acc
  ELSE IF ds[i].has
       THEN LET res == array_sum(ds[i].vals)
            IN ScanSum_CountAssigned(ds, i + 1,
                    [sum |-> acc.sum + res.value, count |-> res.count])
       ELSE ScanSum_CountAssigned(ds, i + 1, acc)

\* the loop of field_sum over the rank's domains ds, from the i-th on
RECURSIVE ScanSum(_, _, _)
ScanSum(ds, i, acc) ==
  IF i > Len(ds) THEN acc
  ELSE IF ds[i].has
       THEN LET res == array_sum(ds[i].vals)
            IN ScanSum(ds, i + 1,
                       [sum |-> acc.sum + res.value,
                        count |-> acc.count + res.count])
       ELSE ScanSum(ds, i + 1, acc)

field_sum_local(r) ==
  /\ op.name = "field_sum"
  /\ pc[r] = "start"
  /\ LET acc == ScanSum(LocalDomains(r), 1, [sum |-> 0, count |-> 0])
     IN IF mpi
        THEN /\ lv' = [lv EXCEPT ![r] = acc]
             /\ pc' = [pc EXCEPT ![r] = "coll1"]
             /\ UNCHANGED ret
        ELSE /\ ret' = [ret EXCEPT ![r] = [value |-> acc.sum, count |-> acc.count]]
             /\ pc' = [pc EXCEPT ![r] = "returned"]
             /\ UNCHANGED lv
  /\ UNCHANGED <<mpi, size, dataset, op>>

\* MPI_Allreduce(&sum, &global_sum, 1, MPI_DOUBLE, MPI_SUM)
field_sum_allreduce_sum ==
  /\ op.name = "field_sum"
  /\ AllAt("coll1")
  /\ LET global_sum == MPI_SUM([r \in Live |-> lv[r].sum])
     IN lv' = [r \in Ranks |->
                 IF r \in Live
                 THEN [sum |-> lv[r].sum, count |-> lv[r].count,
                       global_sum |-> global_sum]
                 ELSE lv[r]]
  /\ pc' = Advance("coll1", "coll2")
  /\ UNCHANGED <<mpi, size, dataset, op, ret>>

\* MPI_Allreduce(&count, &global_count, 1, MPI_LONG_LONG_INT, MPI_SUM), then
\* sum = global_sum, count = global_count and the result node is filled
field_sum_allreduce_count ==
  /\ op.name = "field_sum"
  /\ AllAt("coll2")
  /\ LET global_count == MPI_SUM([r \in Live |-> lv[r].count])
     IN ret' = [r \in Ranks |->
                  IF r \in Live
                  THEN [value |-> lv[r].global_sum, count |-> global_count]
                  ELSE ret[r]]
  /\ pc' = Advance("coll2", "returned")
  /\ UNCHANGED <<mpi, size, dataset, op, lv>>

SumContents ==
  {Blank}
  \cup {[Blank EXCEPT !.has = TRUE, !.vals = v] : v \in {<<>>, <<1>>, <<2, 3>>}}

InitSum == InitWith({[name |-> "field_sum"]}, SumContents)

NextSum ==
  \/ \E r \in Live : field_sum_local(r)
  \/ field_sum_allreduce_sum
  \/ field_sum_allreduce_count

SpecSum == InitSum /\ [][NextSum]_vars

\* (C4) field_sum called by all ranks: no rank throws, and every rank
\* returns the sum of the field's values over all holding domains of all
\* ranks and the number of those values, whoever owns the domains.
C4_GlobalSumAndCount ==
  /\ \A r \in Live : pc[r] # "error"
  /\ \A r \in Live :
       pc[r] = "returned" =>
         /\ ret[r].value = SumOver([i \in Holding |-> SeqSum(dataset[i].vals)], Holding)
         /\ ret[r].count = SumOver([i \in Holding |-> Len(dataset[i].vals)], Holding)

\* all ranks returned; one rank owns nothing, another owns two holding
\* domains and one domain lacks the field
C4_Witness ==
  /\ AllAt("returned")
  /\ size = NumRanks
  /\ \E r \in Live : LocalDomains(r) = <<>>
  /\ \E i, j \in Holding :
       i # j /\ dataset[i].owner = dataset[j].owner
       /\ dataset[i].vals # <<>> /\ dataset[j].vals # <<>>
  /\ \E i \in 1..Len(dataset) : ~dataset[i].has

\* ========================================================= ConsistencyVoter
\* global_someone_agrees(vote): TRUE iff the vote of at least one rank is
\* TRUE; c maps every live rank to its vote.
global_someone_agrees(c) == \E r \in Live : c[r]

\* global_agreement(vote), as the queries below use it to confirm an error
\* that some rank observed
global_agreement(c) == \E r \in Live : c[r]

\* ============================================================== field_assoc
\* the loop of field_assoc without the "element" test
RECURSIVE ScanAssoc_NoElementTest(_, _, _)
ScanAssoc_NoElementTest(ds, i, acc) ==
  IF i > Len(ds) THEN acc
  ELSE IF ds[i].has
       THEN ScanAssoc_NoElementTest(ds, i + 1,
                                    [rank_has |-> TRUE, vertex |-> acc.vertex])
       ELSE ScanAssoc_NoElementTest(ds, i + 1, acc)

\* the loop of field_assoc over the rank's domains ds, from the i-th on
RECURSIVE ScanAssoc(_, _, _)
ScanAssoc(ds, i, acc) ==
  IF i > Len(ds) THEN acc
  ELSE IF ds[i].has
       THEN ScanAssoc(ds, i + 1,
                      [rank_has |-> TRUE,
                       vertex |-> IF ds[i].assoc = "element" THEN FALSE
                                  ELSE acc.vertex])
       ELSE ScanAssoc(ds, i + 1, acc)

\* the end of field_assoc: ASCENT_ERROR on two TRUE votes, else the result
AssocOutcome(r, vertex_vote, element_vote) ==
  IF vertex_vote /\ element_vote
  THEN /\ pc' = [pc EXCEPT ![r] = "error"]
       /\ UNCHANGED ret
  ELSE /\ pc' = [pc EXCEPT ![r] = "returned"]
       /\ ret' = [ret EXCEPT ![r] =
                    [value |-> IF vertex_vote THEN "vertex" ELSE "element"]]

field_assoc_local(r) ==
  /\ op.name = "field_assoc"
  /\ pc[r] = "start"
  /\ LET acc == ScanAssoc(LocalDomains(r), 1, [rank_has |-> FALSE, vertex |-> TRUE])
     IN IF mpi
        THEN /\ lv' = [lv EXCEPT ![r] =
                         [rank_has |-> acc.rank_has, vertex |-> acc.vertex,
                          my_vote |-> acc.rank_has /\ acc.vertex]]
             /\ pc' = [pc EXCEPT ![r] = "coll1"]
             /\ UNCHANGED ret
        ELSE /\ AssocOutcome(r, acc.rank_has /\ acc.vertex,
                                acc.rank_has /\ ~acc.vertex)
             /\ UNCHANGED lv
  /\ UNCHANGED <<mpi, size, dataset, op>>

\* vertex_vote = global_someone_agrees(rank_has && vertex)
field_assoc_vertex_vote ==
  /\ op.name = "field_assoc"
  /\ AllAt("coll1")
  /\ LET vertex_vote == global_someone_agrees([r \in Live |-> lv[r].my_vote])
     IN lv' = [r \in Ranks |->
                 IF r \in Live
                 THEN [rank_has |-> lv[r].rank_has, vertex |-> lv[r].vertex,
                       vertex_vote |-> vertex_vote,
                       my_vote |-> lv[r].rank_has /\ ~lv[r].vertex]
                 ELSE lv[r]]
  /\ pc' = Advance("coll1", "coll2")
  /\ UNCHANGED <<mpi, size, dataset, op, ret>>

\* the end of field_assoc returning by the rank's own vertex flag instead of
\* the reduced vertex_vote
field_assoc_element_vote_LocalFlag ==
  /\ op.name = "field_assoc"
  /\ AllAt("coll2")
  /\ LET element_vote == global_someone_agrees([r \in Live |-> lv[r].my_vote])
     IN /\ pc' = [r \in Ranks |->
                    IF r \notin Live THEN pc[r]
                    ELSE IF lv[r].vertex_vote /\ element_vote THEN "error"
                    ELSE "returned"]
        /\ ret' = [r \in Ranks |->
                     IF r \notin Live \/ (lv[r].vertex_vote /\ element_vote)
                     THEN ret[r]
                     ELSE [value |-> IF lv[r].vertex THEN "vertex"
                                     ELSE "element"]]
  /\ UNCHANGED <<mpi, size, dataset, op, lv>>

\* element_vote = global_someone_agrees(rank_has && !vertex), then the end
field_assoc_element_vote ==
  /\ op.name = "field_assoc"
  /\ AllAt("coll2")
  /\ LET element_vote == global_someone_agrees([r \in Live |-> lv[r].my_vote])
     IN /\ pc' = [r \in Ranks |->
                    IF r \notin Live THEN pc[r]
                    ELSE IF lv[r].vertex_vote /\ element_vote THEN "error"
                    ELSE "returned"]
        /\ ret' = [r \in Ranks |->
                     IF r \notin Live \/ (lv[r].vertex_vote /\ element_vote)
                     THEN ret[r]
                     ELSE [value |-> IF lv[r].vertex_vote THEN "vertex"
                                     ELSE "element"]]
  /\ UNCHANGED <<mpi, size, dataset, op, lv>>

AssocContents ==
  {Blank} \cup {[Blank EXCEPT !.has = TRUE, !.assoc = a, !.vals = <<1>>] : a \in Assocs}

InitAssoc == InitWith({[name |-> "field_assoc"]}, AssocContents)

NextAssoc ==
  \/ \E r \in Live : field_assoc_local(r)
  \/ field_assoc_vertex_vote
  \/ field_assoc_element_vote

SpecAssoc == InitAssoc /\ [][NextAssoc]_vars

\* the associations declared by the holding domains of rank r
RankAssocs(r) == {dataset[i].assoc : i \in {j \in Holding : dataset[j].owner = r}}

\* one rank's domains all say vertex, another rank's all say element
SplitAcrossRanks ==
  \E a, b \in Live : RankAssocs(a) = {"vertex"} /\ RankAssocs(b) = {"element"}

Running(r) == pc[r] \in {"start", "coll1", "coll2", "coll3"}

\* (C5) field_assoc with one rank all-vertex and another all-element: no
\* rank returns an association, and once both votes are taken every rank
\* has raised the disagreement error.
C5_SplitRaisesEverywhere ==
  SplitAcrossRanks =>
    /\ \A r \in Live : pc[r] # "returned"
    /\ (\A r \in Live : ~Running(r)) => AllAt("error")

C5_Witness ==
  /\ SplitAcrossRanks
  /\ size = NumRanks
  /\ AllAt("error")

\* (C6) field_assoc returns an association only when every holding domain
\* of every rank declares the same one: two holding domains that differ,
\* on one rank or on two, end in the disagreement error.
C6_AnyDisagreementRaises ==
  (\E i, j \in Holding : dataset[i].assoc # dataset[j].assoc) =>
    \A r \in Live : pc[r] # "returned"

\* =============================================================== field_type
\* the loop of field_type over the rank's domains ds, from the i-th on
RECURSIVE ScanType(_, _, _)
ScanType(ds, i, acc) ==
  IF i > Len(ds) THEN acc
  ELSE IF ds[i].has
       THEN ScanType(ds, i + 1,
              IF ds[i].dtype = "float32"
              THEN [rank_has |-> TRUE, is_double |-> FALSE, error |-> acc.error]
              ELSE IF ds[i].dtype # "float64"
                   THEN [rank_has |-> TRUE, is_double |-> acc.is_double,
                         error |-> TRUE]
                   ELSE [rank_has |-> TRUE, is_double |-> acc.is_double,
                         error |-> acc.error])
       ELSE ScanType(ds, i + 1, acc)

TypeStart == [rank_has |-> FALSE, is_double |-> TRUE, error |-> FALSE]

\* return is_double ? "double" : "float"
TypeResult(is_double) == [value |-> IF is_double THEN "double" ELSE "float"]

field_type_local(r) ==
  /\ op.name = "field_type"
  /\ pc[r] = "start"
  /\ LET acc == ScanType(LocalDomains(r), 1, TypeStart)
     IN IF mpi
        THEN /\ lv' = [lv EXCEPT ![r] = acc]
             /\ pc' = [pc EXCEPT ![r] = "coll1"]
             /\ UNCHANGED ret
        ELSE /\ UNCHANGED lv
             /\ IF acc.error
                THEN pc' = [pc EXCEPT ![r] = "error"] /\ UNCHANGED ret
                ELSE /\ pc' = [pc EXCEPT ![r] = "returned"]
                     /\ ret' = [ret EXCEPT ![r] = TypeResult(acc.is_double)]
  /\ UNCHANGED <<mpi, size, dataset, op>>

\* error = global_agreement(error); ASCENT_ERROR when it is set
field_type_error_vote ==
  /\ op.name = "field_type"
  /\ AllAt("coll1")
  /\ IF global_agreement([r \in Live |-> lv[r].error])
     THEN pc' = Advance("coll1", "error")
     ELSE pc' = Advance("coll1", "coll2")
  /\ UNCHANGED <<mpi, size, dataset, op, lv, ret>>

\* double_vote = global_someone_agrees(rank_has && is_double); the vote is
\* not read again: the rank returns by its own is_double
field_type_double_vote ==
  /\ op.name = "field_type"
  /\ AllAt("coll2")
  /\ lv' = [r \in Ranks |->
              IF r \in Live
              THEN [rank_has |-> lv[r].rank_has, is_double |-> lv[r].is_double,
                    error |-> lv[r].error,
                    double_vote |-> global_someone_agrees(
                       [q \in Live |-> lv[q].rank_has /\ lv[q].is_double])]
              ELSE lv[r]]
  /\ ret' = [r \in Ranks |->
               IF r \in Live THEN TypeResult(lv[r].is_double) ELSE ret[r]]
  /\ pc' = Advance("coll2", "returned")
  /\ UNCHANGED <<mpi, size, dataset, op>>

TypeContents ==
  {Blank}
  \cup {[Blank EXCEPT !.has = TRUE, !.dtype = t, !.vals = <<1>>] :
          t \in {"float32", "float64", "int32"}}

InitType == InitWith({[name |-> "field_type"]}, TypeContents)

NextType ==
  \/ \E r \in Live : field_type_local(r)
  \/ field_type_error_vote
  \/ field_type_double_vote

SpecType == InitType /\ [][NextType]_vars

\* (C7) field_type when every holding domain is float32 or float64: all
\* ranks return the same string, "double" iff no domain of any rank holds
\* the field as float32.
C7_SameTypeEverywhere ==
  (\A i \in Holding : dataset[i].dtype \in {"float32", "float64"}) =>
    (AllAt("returned") =>
       \A r \in Live :
         /\ ret[r] = ret[0]
         /\ (ret[r].value = "double") <=>
              (\A i \in Holding : dataset[i].dtype # "float32"))

\* ================================================== has_field, has_topology
\* detail::at_least_one without the reduction: the local value comes back
at_least_one_LocalOnly(local, c) == local

\* detail::at_least_one under MPI: c maps every live rank to its local value
at_least_one(local, c) ==
  LET global_count == MPI_SUM([r \in Live |-> IF c[r] THEN 1 ELSE 0])
  IN IF global_count > 0 THEN TRUE ELSE local

\* the loop of has_field
RECURSIVE ScanHasField(_, _, _)
ScanHasField(ds, i, has_field) ==
  IF i > Len(ds) THEN has_field
  ELSE ScanHasField(ds, i + 1, IF ~has_field /\ ds[i].has THEN TRUE ELSE has_field)

\* the loop of has_topology
RECURSIVE ScanHasTopo(_, _, _)
ScanHasTopo(ds, i, has_topo) ==
  IF i > Len(ds) THEN has_topo
  ELSE ScanHasTopo(ds, i + 1, IF ~has_topo /\ ds[i].hastopo THEN TRUE ELSE has_topo)

\* at_least_one that skips the reduction on a rank whose local value is
\* already true
HasLocal_SkipWhenTrue(r, local) ==
  IF mpi /\ ~local
  THEN /\ lv' = [lv EXCEPT ![r] = [local |-> local]]
       /\ pc' = [pc EXCEPT ![r] = "coll1"]
       /\ UNCHANGED ret
  ELSE /\ ret' = [ret EXCEPT ![r] = [value |-> local]]
       /\ pc' = [pc EXCEPT ![r] = "returned"]
       /\ UNCHANGED lv

\* the code before the reduction of at_least_one; without MPI the local
\* value is the result
HasLocal(r, local) ==
  IF mpi
  THEN /\ lv' = [lv EXCEPT ![r] = [local |-> local]]
       /\ pc' = [pc EXCEPT ![r] = "coll1"]
       /\ UNCHANGED ret
  ELSE /\ ret' = [ret EXCEPT ![r] = [value |-> local]]
       /\ pc' = [pc EXCEPT ![r] = "returned"]
       /\ UNCHANGED lv

has_field_local(r) ==
  /\ op.name = "has_field"
  /\ pc[r] = "start"
  /\ HasLocal(r, ScanHasField(LocalDomains(r), 1, FALSE))
  /\ UNCHANGED <<mpi, size, dataset, op>>

has_topology_local(r) ==
  /\ op.name = "has_topology"
  /\ pc[r] = "start"
  /\ HasLocal(r, ScanHasTopo(LocalDomains(r), 1, FALSE))
  /\ UNCHANGED <<mpi, size, dataset, op>>

\* the MPI_Allreduce of at_least_one and the return of has_field/has_topology
at_least_one_allreduce ==
  /\ op.name \in {"has_field", "has_topology"}
  /\ AllAt("coll1")
  /\ ret' = [r \in Ranks |->
               IF r \in Live
               THEN [value |-> at_least_one(lv[r].local,
                                            [q \in Live |-> lv[q].local])]
               ELSE ret[r]]
  /\ pc' = Advance("coll1", "returned")
  /\ UNCHANGED <<mpi, size, dataset, op, lv>>

HasContents ==
  {[Blank EXCEPT !.has = f, !.hastopo = t, !.vals = IF f THEN <<1>> ELSE <<>>] :
     f \in BOOLEAN, t \in BOOLEAN}

InitHas == InitWith({[name |-> "has_field"], [name |-> "has_topology"]}, HasContents)

NextHas ==
  \/ \E r \in Live : has_field_local(r)
  \/ \E r \in Live : has_topology_local(r)
  \/ at_least_one_allreduce

SpecHas == InitHas /\ [][NextHas]_vars

\* does domain i contain the name the query asks for
Contains(i) == IF op.name = "has_field" THEN dataset[i].has ELSE dataset[i].hastopo

\* (C8) has_field / has_topology: no rank throws; every rank returns TRUE
\* iff some domain of some rank contains the name; with one rank (with or
\* without MPI) that is the rank's local value.
C8_TrueIffSomeDomainHasIt ==
  /\ \A r \in Live : pc[r] # "error"
  /\ \A r \in Live :
       pc[r] = "returned" =>
         /\ ret[r].value = (\E i \in 1..Len(dataset) : Contains(i))
         /\ size = 1 =>
              ret[r].value = (\E i \in 1..Len(dataset) :
                                dataset[i].owner = r /\ Contains(i))

\* all ranks returned TRUE although the first rank's domains lack the name
C8_Witness ==
  /\ AllAt("returned")
  /\ size = NumRanks
  /\ LocalDomains(0) # <<>>
  /\ \A i \in 1..Len(dataset) : dataset[i].owner = 0 => ~Contains(i)
  /\ ret[0].value = TRUE

\* =========================================================== field_topology
\* the loop of field_topology without its break: the last owning domain wins
RECURSIVE FirstTopology_NoBreak(_, _)
FirstTopology_NoBreak(ds, i) ==
  IF i > Len(ds) THEN <<>>
  ELSE LET rest == FirstTopology_NoBreak(ds, i + 1)
       IN IF ds[i].has /\ rest = <<>> THEN ds[i].topo ELSE rest

\* the loop of field_topology: the topology of the first owning domain
RECURSIVE FirstTopology(_, _)
FirstTopology(ds, i) ==
  IF i > Len(ds) THEN <<>>
  ELSE IF ds[i].has THEN ds[i].topo
       ELSE FirstTopology(ds, i + 1)

field_topology_local(r) ==
  /\ op.name = "field_topology"
  /\ pc[r] = "start"
  /\ LET topo_name == FirstTopology(LocalDomains(r), 1)
     IN IF mpi
        THEN /\ lv' = [lv EXCEPT ![r] =
                         [topo_name |-> topo_name, value |-> Len(topo_name),
                          rank |-> r]]
             /\ pc' = [pc EXCEPT ![r] = "coll1"]
             /\ UNCHANGED ret
        ELSE /\ ret' = [ret EXCEPT ![r] = [value |-> topo_name]]
             /\ pc' = [pc EXCEPT ![r] = "returned"]
             /\ UNCHANGED lv
  /\ UNCHANGED <<mpi, size, dataset, op>>

\* MPI_Allreduce(&maxloc, &maxloc_res, 1, MPI_DOUBLE_INT, MPI_MAXLOC) on
\* (topo_name.length(), rank)
field_topology_allreduce ==
  /\ op.name = "field_topology"
  /\ AllAt("coll1")
  /\ LET maxloc_res == MPI_MAXLOC(lv)
     IN lv' = [r \in Ranks |->
                 IF r \in Live
                 THEN [lv[r] EXCEPT !.value = maxloc_res.value,
                                    !.rank = maxloc_res.rank]
                 ELSE lv[r]]
  /\ pc' = Advance("coll1", "coll2")
  /\ UNCHANGED <<mpi, size, dataset, op, ret>>

\* broadcast_using_schema(msg, maxloc_res.rank): every rank receives the
\* root's msg["topo"], a string, and returns it
field_topology_broadcast ==
  /\ op.name = "field_topology"
  /\ AllAt("coll2")
  /\ ret' = [r \in Ranks |->
               IF r \in Live THEN [value |-> lv[lv[r].rank].topo_name]
               ELSE ret[r]]
  /\ pc' = Advance("coll2", "returned")
  /\ UNCHANGED <<mpi, size, dataset, op, lv>>

TopoNames == {<<"a">>, <<"b">>, <<"m", "2">>}

TopoContents ==
  {Blank} \cup {[Blank EXCEPT !.has = TRUE, !.topo = t, !.vals = <<1>>] : t \in TopoNames}

InitTopo == InitWith({[name |-> "field_topology"]}, TopoContents)

NextTopo ==
  \/ \E r \in Live : field_topology_local(r)
  \/ field_topology_allreduce
  \/ field_topology_broadcast

SpecTopo == InitTopo /\ [][NextTopo]_vars

\* the topology of the first domain of rank r, in local order, that owns
\* the field; empty when the rank owns none
LocalName(r) ==
  LET ds == LocalDomains(r)
      own == {i \in 1..Len(ds) : ds[i].has}
  IN IF own = {} THEN <<>> ELSE ds[SetMin(own)].topo

\* (C9) field_topology: no rank throws; all ranks return the same name, the
\* local name of the lowest rank among those whose local name is longest;
\* it is non-empty whenever some rank owns the field.
C9_LongestLocalNameWins ==
  /\ \A r \in Live : pc[r] # "error"
  /\ AllAt("returned") =>
       LET longest == SetMax({Len(LocalName(r)) : r \in Live})
           w == SetMin({r \in Live : Len(LocalName(r)) = longest})
       IN \A r \in Live :
            /\ ret[r].value = LocalName(w)
            /\ Holding # {} => ret[r].value # <<>>

\* two ranks own the field with different names of equal length, the lower
\* one in two domains with different names; a rank returned a name that is
\* not its local one
C9_Witness ==
  /\ AllAt("returned")
  /\ size = NumRanks
  /\ \E a, b \in Live :
       /\ a < b
       /\ Len(LocalName(a)) = Len(LocalName(b))
       /\ LocalName(a) # LocalName(b)
       /\ LocalName(a) # <<>>
       /\ ret[b].value = LocalName(a)
  /\ \E i, j \in Holding :
       i < j /\ dataset[i].owner = 0 /\ dataset[j].owner = 0
       /\ dataset[i].topo # dataset[j].topo
       /\ ret[0].value = dataset[i].topo

\* ========================================================== field_histogram
\* array_histogram of one values array: the number of values per bin of
\* width (max_val - min_val) / num_bins; values outside the range are left out
array_histogram(vals, min_val, max_val, num_bins) ==
  [b \in 1..num_bins |->
     Cardinality({k \in 1..Len(vals) :
        /\ vals[k] >= min_val
        /\ vals[k] < max_val
        /\ ((vals[k] - min_val) * num_bins) \div (max_val - min_val) = b - 1})]

\* the loop of field_histogram: bins[b] += dom_hist[b] over holding domains
RECURSIVE ScanHist(_, _, _)
ScanHist(ds, i, bins) ==
  IF i > Len(ds) THEN bins
  ELSE IF ds[i].has
       THEN LET dom_hist == array_histogram(ds[i].vals, op.min_val, op.max_val,
                                            op.num_bins)
            IN ScanHist(ds, i + 1, [b \in 1..op.num_bins |-> bins[b] + dom_hist[b]])
       ELSE ScanHist(ds, i + 1, bins)

\* A double is kept as its IEEE-754 bit pattern, four 16-bit limbs, least
\* significant first; an int (MPI_INT) is two limbs.
RECURSIVE Log2(_)
Log2(c) == IF c < 2 THEN 0 ELSE 1 + Log2(c \div 2)

\* the double that holds the count c (c < 32): sign 0, exponent 1023 + e,
\* the fraction bits of c below its leading one
ToDouble(c) ==
  IF c = 0 THEN <<0, 0, 0, 0>>
  ELSE LET e == Log2(c)
       IN <<0, 0, 0, (1023 + e) * 16 + ((c - 2^e) * 16) \div (2^e)>>

\* the k-th int (0-based) of an array of doubles on a little-endian machine
IntAt(doubles, k) ==
  LET d == doubles[(k \div 2) + 1]
  IN IF k % 2 = 0 THEN <<d[1], d[2]>> ELSE <<d[3], d[4]>>

\* int addition, wrapping at 32 bits
Add32(a, b) ==
  LET lo == a[1] + b[1]
  IN <<lo % (2^16), (a[2] + b[2] + lo \div (2^16)) % (2^16)>>

RECURSIVE SumInt32(_, _, _)
SumInt32(buf, k, S) ==
  IF S = {} THEN <<0, 0>>
  ELSE LET r == CHOOSE x \in S : TRUE
       IN Add32(IntAt(buf[r], k), SumInt32(buf, k, S \ {r}))

\* MPI_Allreduce(bins, global_bins, num_bins, MPI_INT, MPI_SUM) on arrays of
\* num_bins doubles: the first num_bins ints of the buffers are summed as
\* ints; the other ints of global_bins keep what "new double[num_bins]"
\* left there, heap
AllreduceBins(buf, heap) ==
  LET int == [k \in 0..(2 * op.num_bins - 1) |->
                IF k < op.num_bins THEN SumInt32(buf, k, Live) ELSE heap]
  IN [b \in 1..op.num_bins |->
        <<int[2 * (b - 1)][1], int[2 * (b - 1)][2],
          int[2 * (b - 1) + 1][1], int[2 * (b - 1) + 1][2]>>]

HistResult(bins) ==
  [value |-> bins, min_val |-> op.min_val, max_val |-> op.max_val,
   num_bins |-> op.num_bins]

field_histogram_local(r) ==
  /\ op.name = "field_histogram"
  /\ pc[r] = "start"
  /\ LET counts == ScanHist(LocalDomains(r), 1, [b \in 1..op.num_bins |-> 0])
         bins == [b \in 1..op.num_bins |-> ToDouble(counts[b])]
     IN IF mpi
        THEN /\ lv' = [lv EXCEPT ![r] = [bins |-> bins]]
             /\ pc' = [pc EXCEPT ![r] = "coll1"]
             /\ UNCHANGED ret
        ELSE /\ ret' = [ret EXCEPT ![r] = HistResult(bins)]
             /\ pc' = [pc EXCEPT ![r] = "returned"]
             /\ UNCHANGED lv
  /\ UNCHANGED <<mpi, size, dataset, op>>

\* what an int of freshly allocated memory may hold
HeapInts == {<<0, 0>>, <<0, 16368>>}

\* the MPI_Allreduce of field_histogram, then the result node is filled
field_histogram_allreduce ==
  /\ op.name = "field_histogram"
  /\ AllAt("coll1")
  /\ \E heap \in [Live -> HeapInts] :
       ret' = [r \in Ranks |->
                 IF r \in Live
                 THEN HistResult(AllreduceBins([q \in Live |-> lv[q].bins], heap[r]))
                 ELSE ret[r]]
  /\ pc' = Advance("coll1", "returned")
  /\ UNCHANGED <<mpi, size, dataset, op, lv>>

HistOps ==
  {[name |-> "field_histogram", min_val |-> 0, max_val |-> n, num_bins |-> n] :
     n \in {2, 3}}

HistContents ==
  {Blank}
  \cup {[Blank EXCEPT !.has = TRUE, !.vals = v] : v \in {<<0>>, <<0, 1>>, <<1, 1>>}}

InitHist == InitWith(HistOps, HistContents)

NextHist ==
  \/ \E r \in Live : field_histogram_local(r)
  \/ field_histogram_allreduce

SpecHist == InitHist /\ [][NextHist]_vars

\* the count of bin b (1-based) over every holding domain of every rank
TotalBin(b) ==
  SumOver([i \in Holding |->
             array_histogram(dataset[i].vals, op.min_val, op.max_val,
                             op.num_bins)[b]], Holding)

\* (C10) field_histogram: on every rank value[b] is the sum of the local
\* counts of bin b over all holding domains of all ranks, for every bin,
\* and min_val, max_val and num_bins are the arguments.
C10_BinsAreGlobalSums ==
  \A r \in Live :
    pc[r] = "returned" =>
      /\ \A b \in 1..op.num_bins : ret[r].value[b] = ToDouble(TotalBin(b))
      /\ ret[r].min_val = op.min_val
      /\ ret[r].max_val = op.max_val
      /\ ret[r].num_bins = op.num_bins

\* ========================================== field_nan_count, field_inf_count
\* array_nan_count / array_inf_count of one values array; the arrays of
\* these two queries hold the marks "nan", "inf" and "num" (any finite value)
array_nan_count(vals) == Cardinality({k \in 1..Len(vals) : vals[k] = "nan"})

array_inf_count(vals) == Cardinality({k \in 1..Len(vals) : vals[k] = "inf"})

\* the loop of field_nan_count
RECURSIVE ScanNan(_, _, _)
ScanNan(ds, i, nan_count) ==
  IF i > Len(ds) THEN nan_count
  ELSE IF ds[i].has
       THEN ScanNan(ds, i + 1, nan_count + array_nan_count(ds[i].vals))
       ELSE ScanNan(ds, i + 1, nan_count)

\* the loop of field_inf_count
RECURSIVE ScanInf(_, _, _)
ScanInf(ds, i, inf_count) ==
  IF i > Len(ds) THEN inf_count
  ELSE IF ds[i].has
       THEN ScanInf(ds, i + 1, inf_count + array_inf_count(ds[i].vals))
       ELSE ScanInf(ds, i + 1, inf_count)

\* field_nan_count: the loop, then the result; no collective is issued
field_nan_count(r) ==
  /\ op.name = "field_nan_count"
  /\ pc[r] = "start"
  /\ ret' = [ret EXCEPT ![r] = [value |-> ScanNan(LocalDomains(r), 1, 0)]]
  /\ pc' = [pc EXCEPT ![r] = "returned"]
  /\ UNCHANGED <<mpi, size, dataset, op, lv>>

\* field_inf_count: the loop, then the result; no collective is issued
field_inf_count(r) ==
  /\ op.name = "field_inf_count"
  /\ pc[r] = "start"
  /\ ret' = [ret EXCEPT ![r] = [value |-> ScanInf(LocalDomains(r), 1, 0)]]
  /\ pc' = [pc EXCEPT ![r] = "returned"]
  /\ UNCHANGED <<mpi, size, dataset, op, lv>>

CountContents ==
  {Blank}
  \cup {[Blank EXCEPT !.has = TRUE, !.vals = v] :
          v \in {<<"num">>, <<"nan", "inf">>, <<"nan", "num", "nan">>, <<"inf">>}}

InitCount ==
  InitWith({[name |-> "field_nan_count"], [name |-> "field_inf_count"]}, CountContents)

NextCount ==
  \/ \E r \in Live : field_nan_count(r)
  \/ \E r \in Live : field_inf_count(r)

SpecCount == InitCount /\ [][NextCount]_vars

\* the number of marks m in the holding domains of the whole dataset
TotalMarks(m) ==
  SumOver([i \in Holding |->
             Cardinality({k \in 1..Len(dataset[i].vals) : dataset[i].vals[k] = m})],
          Holding)

\* (C11) field_nan_count / field_inf_count: every rank returns the sum of
\* the per-domain NaN (resp. Inf) counts over all holding domains of all
\* ranks, the number one rank owning every domain would return.
C11_CountsAreGlobal ==
  \A r \in Live :
    pc[r] = "returned" =>
      ret[r].value = TotalMarks(IF op.name = "field_nan_count" THEN "nan" ELSE "inf")

\* ============================================================= spatial_dims
\* the loop of spatial_dims: the first domain holding the topology whose
\* coordset is uniform, rectilinear or explicit decides is_3d and ends the
\* loop (break)
RECURSIVE ScanDims(_, _, _)
ScanDims(ds, i, acc) ==
  IF i > Len(ds) THEN acc
  ELSE IF ~ds[i].hastopo THEN ScanDims(ds, i + 1, acc)
       ELSE IF ds[i].coords.type \in {"uniform", "rectilinear", "explicit"}
            THEN [rank_has |-> TRUE, is_3d |-> ds[i].coords.is3d]
            ELSE ScanDims(ds, i + 1, [rank_has |-> TRUE, is_3d |-> acc.is_3d])

\* the end of spatial_dims: ASCENT_ERROR on two TRUE votes, else 3 or 2
DimsOutcome(r, vote_3d, vote_2d) ==
  IF vote_2d /\ vote_3d
  THEN /\ pc' = [pc EXCEPT ![r] = "error"]
       /\ UNCHANGED ret
  ELSE /\ pc' = [pc EXCEPT ![r] = "returned"]
       /\ ret' = [ret EXCEPT ![r] = [value |-> IF vote_3d THEN 3 ELSE 2]]

spatial_dims_local(r) ==
  /\ op.name = "spatial_dims"
  /\ pc[r] = "start"
  /\ LET acc == ScanDims(LocalDomains(r), 1, [rank_has |-> FALSE, is_3d |-> FALSE])
     IN IF mpi
        THEN /\ lv' = [lv EXCEPT ![r] =
                         [rank_has |-> acc.rank_has, is_3d |-> acc.is_3d,
                          my_vote |-> acc.rank_has /\ acc.is_3d]]
             /\ pc' = [pc EXCEPT ![r] = "coll1"]
             /\ UNCHANGED ret
        ELSE /\ DimsOutcome(r, acc.rank_has /\ acc.is_3d, acc.rank_has /\ ~acc.is_3d)
             /\ UNCHANGED lv
  /\ UNCHANGED <<mpi, size, dataset, op>>

\* vote_3d = global_someone_agrees(rank_has && is_3d)
spatial_dims_vote_3d ==
  /\ op.name = "spatial_dims"
  /\ AllAt("coll1")
  /\ LET vote_3d == global_someone_agrees([r \in Live |-> lv[r].my_vote])
     IN lv' = [r \in Ranks |->
                 IF r \in Live
                 THEN [rank_has |-> lv[r].rank_has, is_3d |-> lv[r].is_3d,
                       vote_3d |-> vote_3d,
                       my_vote |-> lv[r].rank_has /\ ~lv[r].is_3d]
                 ELSE lv[r]]
  /\ pc' = Advance("coll1", "coll2")
  /\ UNCHANGED <<mpi, size, dataset, op, ret>>

\* vote_2d = global_someone_agrees(rank_has && !is_3d), then the end
spatial_dims_vote_2d ==
  /\ op.name = "spatial_dims"
  /\ AllAt("coll2")
  /\ LET vote_2d == global_someone_agrees([r \in Live |-> lv[r].my_vote])
     IN /\ pc' = [r \in Ranks |->
                    IF r \notin Live THEN pc[r]
                    ELSE IF vote_2d /\ lv[r].vote_3d THEN "error"
                    ELSE "returned"]
        /\ ret' = [r \in Ranks |->
                     IF r \notin Live \/ (vote_2d /\ lv[r].vote_3d)
                     THEN ret[r]
                     ELSE [value |-> IF lv[r].vote_3d THEN 3 ELSE 2]]
  /\ UNCHANGED <<mpi, size, dataset, op, lv>>

DimsContents ==
  {Blank}
  \cup {[Blank EXCEPT !.hastopo = TRUE, !.coords = c] :
          c \in {[type |-> "uniform", is3d |-> FALSE, dtype |-> "float64"],
                 [type |-> "uniform", is3d |-> TRUE, dtype |-> "float64"],
                 [type |-> "rectilinear", is3d |-> FALSE, dtype |-> "float64"],
                 [type |-> "explicit", is3d |-> TRUE, dtype |-> "float64"]}}

InitDims == InitWith({[name |-> "spatial_dims"]}, DimsContents)

NextDims ==
  \/ \E r \in Live : spatial_dims_local(r)
  \/ spatial_dims_vote_3d
  \/ spatial_dims_vote_2d

SpecDims == InitDims /\ [][NextDims]_vars

WithTopo == {i \in 1..Len(dataset) : dataset[i].hastopo}

\* (C12) spatial_dims: when the domains holding the topology are not all
\* of one dimensionality, on one rank or on several, the call raises the
\* disagreement error and returns 2 or 3 to no rank.
C12_MixedDimsRaise ==
  (\E i, j \in WithTopo : dataset[i].coords.is3d # dataset[j].coords.is3d) =>
    \A r \in Live : pc[r] # "returned"

\* =============================================================== coord_type
\* dom.has_path("topology/" + topo_name): a domain keeps its topologies under
\* "topologies", it has no child "topology"
has_topology_path(dom) == FALSE

\* the loop of coord_type over the rank's domains ds, from the i-th on
RECURSIVE ScanCoordType(_, _, _)
ScanCoordType(ds, i, acc) ==
  IF i > Len(ds) THEN acc
  ELSE IF has_topology_path(ds[i]) /\ ds[i].coords.type # "uniform"
       THEN ScanCoordType(ds, i + 1,
              IF ds[i].coords.dtype = "float32"
              THEN [is_float |-> TRUE, has_array |-> TRUE, error |-> acc.error]
              ELSE IF ds[i].coords.dtype # "float64"
                   THEN [is_float |-> FALSE, has_array |-> TRUE, error |-> TRUE]
                   ELSE [is_float |-> acc.is_float, has_array |-> TRUE,
                         error |-> acc.error])
       ELSE ScanCoordType(ds, i + 1, acc)

\* return float_vote ? "float" : "double"
CoordTypeResult(float_vote) == [value |-> IF float_vote THEN "float" ELSE "double"]

coord_type_local(r) ==
  /\ op.name = "coord_type"
  /\ pc[r] = "start"
  /\ LET acc == ScanCoordType(LocalDomains(r), 1,
                  [is_float |-> FALSE, has_array |-> FALSE, error |-> FALSE])
     IN IF mpi
        THEN /\ lv' = [lv EXCEPT ![r] = acc]
             /\ pc' = [pc EXCEPT ![r] = "coll1"]
             /\ UNCHANGED ret
        ELSE /\ UNCHANGED lv
             /\ IF acc.error
                THEN pc' = [pc EXCEPT ![r] = "error"] /\ UNCHANGED ret
                ELSE /\ pc' = [pc EXCEPT ![r] = "returned"]
                     /\ ret' = [ret EXCEPT ![r] =
                                  CoordTypeResult(acc.has_array /\ acc.is_float)]
  /\ UNCHANGED <<mpi, size, dataset, op>>

\* error = global_agreement(error); ASCENT_ERROR when it is set
coord_type_error_vote ==
  /\ op.name = "coord_type"
  /\ AllAt("coll1")
  /\ IF global_agreement([r \in Live |-> lv[r].error])
     THEN pc' = Advance("coll1", "error")
     ELSE pc' = Advance("coll1", "coll2")
  /\ UNCHANGED <<mpi, size, dataset, op, lv, ret>>

\* float_vote = global_someone_agrees(has_array && is_float), then the return
coord_type_float_vote ==
  /\ op.name = "coord_type"
  /\ AllAt("coll2")
  /\ LET float_vote == global_someone_agrees(
                         [r \in Live |-> lv[r].has_array /\ lv[r].is_float])
     IN ret' = [r \in Ranks |->
                  IF r \in Live THEN CoordTypeResult(float_vote) ELSE ret[r]]
  /\ pc' = Advance("coll2", "returned")
  /\ UNCHANGED <<mpi, size, dataset, op, lv>>

CoordTypeContents ==
  {Blank}
  \cup {[Blank EXCEPT !.hastopo = TRUE, !.coords = c] :
          c \in {[type |-> "uniform", is3d |-> FALSE, dtype |-> "float64"],
                 [type |-> "explicit", is3d |-> FALSE, dtype |-> "float32"],
                 [type |-> "explicit", is3d |-> FALSE, dtype |-> "float64"],
                 [type |-> "rectilinear", is3d |-> FALSE, dtype |-> "float32"]}}

InitCoordType == InitWith({[name |-> "coord_type"]}, CoordTypeContents)

NextCoordType ==
  \/ \E r \in Live : coord_type_local(r)
  \/ coord_type_error_vote
  \/ coord_type_float_vote

SpecCoordType == InitCoordType /\ [][NextCoordType]_vars

\* the array types of the array-backed coordsets of the topology on rank r
RankArrayTypes(r) ==
  {dataset[i].coords.dtype :
     i \in {j \in WithTopo : dataset[j].owner = r /\ dataset[j].coords.type # "uniform"}}

AllArrayTypes == UNION {RankArrayTypes(r) : r \in Live}

\* (C13) coord_type: a float32 rank and a float64 rank make the call raise
\* on every rank; when all coordinate arrays are float32 every rank returns
\* "float", and when all are float64, or all coordsets are uniform, "double".
C13_VotesBothWays ==
  /\ (\E a, b \in Live : RankArrayTypes(a) = {"float32"} /\ RankArrayTypes(b) = {"float64"})
       => \A r \in Live : pc[r] # "returned"
  /\ \A r \in Live :
       pc[r] = "returned" =>
         /\ AllArrayTypes = {"float32"} => ret[r].value = "float"
         /\ AllArrayTypes \subseteq {"float64"} => ret[r].value = "double"

\* ================================================================ field_avg
\* sum["value"].to_float64() / sum["count"].to_float64(): a division of
\* doubles, kept as the exact fraction; 0/0 is NaN and x/0 an infinity
DoubleDiv(a, b) ==
  IF b # 0 THEN [kind |-> "ratio", num |-> a, den |-> b]
  ELSE IF a = 0 THEN [kind |-> "nan", num |-> 0, den |-> 0]
  ELSE [kind |-> "inf", num |-> a, den |-> 0]

\* field_avg: the call of field_sum up to its first reduction
field_avg_local(r) ==
  /\ op.name = "field_avg"
  /\ pc[r] = "start"
  /\ LET acc == ScanSum(LocalDomains(r), 1, [sum |-> 0, count |-> 0])
     IN IF mpi
        THEN /\ lv' = [lv EXCEPT ![r] = acc]
             /\ pc' = [pc EXCEPT ![r] = "coll1"]
             /\ UNCHANGED ret
        ELSE /\ ret' = [ret EXCEPT ![r] = [value |-> DoubleDiv(acc.sum, acc.count)]]
             /\ pc' = [pc EXCEPT ![r] = "returned"]
             /\ UNCHANGED lv
  /\ UNCHANGED <<mpi, size, dataset, op>>

\* field_avg: the first reduction of field_sum
field_avg_allreduce_sum ==
  /\ op.name = "field_avg"
  /\ AllAt("coll1")
  /\ LET global_sum == MPI_SUM([r \in Live |-> lv[r].sum])
     IN lv' = [r \in Ranks |->
                 IF r \in Live
                 THEN [sum |-> lv[r].sum, count |-> lv[r].count,
                       global_sum |-> global_sum]
                 ELSE lv[r]]
  /\ pc' = Advance("coll1", "coll2")
  /\ UNCHANGED <<mpi, size, dataset, op, ret>>

\* field_avg: the second reduction of field_sum, its return, the division
field_avg_allreduce_count ==
  /\ op.name = "field_avg"
  /\ AllAt("coll2")
  /\ LET global_count == MPI_SUM([r \in Live |-> lv[r].count])
     IN ret' = [r \in Ranks |->
                  IF r \in Live
                  THEN [value |-> DoubleDiv(lv[r].global_sum, global_count)]
                  ELSE ret[r]]
  /\ pc' = Advance("coll2", "returned")
  /\ UNCHANGED <<mpi, size, dataset, op, lv>>

InitAvg == InitWith({[name |-> "field_avg"]}, SumContents)

NextAvg ==
  \/ \E r \in Live : field_avg_local(r)
  \/ field_avg_allreduce_sum
  \/ field_avg_allreduce_count

SpecAvg == InitAvg /\ [][NextAvg]_vars

TotalSum == SumOver([i \in Holding |-> SeqSum(dataset[i].vals)], Holding)
TotalCount == SumOver([i \in Holding |-> Len(dataset[i].vals)], Holding)

\* (C14) field_avg: with a global count of 0 the call ends in a fatal error
\* on every rank and returns to none; with a positive count it returns the
\* global sum divided by the global count.
C14_ZeroCountIsFatal ==
  /\ TotalCount = 0 => \A r \in Live : pc[r] # "returned"
  /\ \A r \in Live :
       (pc[r] = "returned" /\ TotalCount > 0) =>
         ret[r].value = [kind |-> "ratio", num |-> TotalSum, den |-> TotalCount]

\* ================================================== field_cdf and quantile
MaxBins == 3
MaxCount == 1

\* A double of the distribution code: a fraction n/d with d > 0, or NaN.
\* Trap is no double: it marks a word whose read faults.
Dbl(n, d) == [kind |-> "num", n |-> n, d |-> d]
NaN == [kind |-> "nan", n |-> 0, d |-> 1]
Trap == [kind |-> "trap", n |-> 0, d |-> 1]

IsNum(a) == a.kind = "num"
\* every comparison with a NaN is false
DblLess(a, b) == IsNum(a) /\ IsNum(b) /\ a.n * b.d < b.n * a.d
DblEq(a, b) == IsNum(a) /\ IsNum(b) /\ a.n * b.d = b.n * a.d
DblAdd(a, b) ==
  IF IsNum(a) /\ IsNum(b) THEN Dbl(a.n * b.d + b.n * a.d, a.d * b.d) ELSE NaN
DblSub(a, b) ==
  IF IsNum(a) /\ IsNum(b) THEN Dbl(a.n * b.d - b.n * a.d, a.d * b.d) ELSE NaN
DblMul(a, b) ==
  IF IsNum(a) /\ IsNum(b) THEN Dbl(a.n * b.n, a.d * b.d) ELSE NaN
\* a / b for b # 0, and 0 / 0; the sign of b goes to the numerator
DblDiv(a, b) ==
  IF IsNum(a) /\ IsNum(b) /\ b.n > 0 THEN Dbl(a.n * b.d, a.d * b.n)
  ELSE IF IsNum(a) /\ IsNum(b) /\ b.n < 0 THEN Dbl(0 - a.n * b.d, 0 - a.d * b.n)
  ELSE NaN

\* rolling_cdf after bins 1..b: the counts are integers, the sum their total
RECURSIVE Rolling(_, _)
Rolling(hist_bins, b) ==
  IF b = 0 THEN 0 ELSE Rolling(hist_bins, b - 1) + hist_bins[b]

field_cdf(hist) ==
  LET sum == array_sum(hist.value).value
  IN [value |-> [b \in 1..hist.num_bins |->
                   IF sum = 0 THEN NaN
                   ELSE Dbl(Rolling(hist.value, b), sum)],
      min_val |-> hist.min_val, max_val |-> hist.max_val,
      num_bins |-> hist.num_bins]

\* cdf_bins[idx], idx counted from 0.  The array has num_bins doubles; the
\* word before it and the word after it hold whatever heap says (or fault),
\* and a read further out faults.
ReadCdf(cdf, idx, heap) ==
  IF idx >= 0 /\ idx < cdf.num_bins THEN cdf.value[idx + 1]
  ELSE IF idx = -1 \/ idx = cdf.num_bins THEN heap
  ELSE Trap

\* the scan with "<=" for "<": it also passes the bins whose cdf equals val
RECURSIVE QuantileScan_PassEqual(_, _, _, _, _)
QuantileScan_PassEqual(cdf, val, heap, bin, reads) ==
  LET c == ReadCdf(cdf, bin, heap)
  IN IF c = Trap THEN [crashed |-> TRUE, bin |-> bin, reads |-> reads \cup {bin}]
     ELSE IF DblLess(c, val) \/ DblEq(c, val)
          THEN QuantileScan_PassEqual(cdf, val, heap, bin + 1, reads \cup {bin})
          ELSE [crashed |-> FALSE, bin |-> bin, reads |-> reads \cup {bin}]

\* for(; cdf_bins[bin] < val; ++bin);
RECURSIVE QuantileScan(_, _, _, _, _)
QuantileScan(cdf, val, heap, bin, reads) ==
  LET c == ReadCdf(cdf, bin, heap)
  IN IF c = Trap THEN [crashed |-> TRUE, bin |-> bin, reads |-> reads \cup {bin}]
     ELSE IF DblLess(c, val)
          THEN QuantileScan(cdf, val, heap, bin + 1, reads \cup {bin})
          ELSE [crashed |-> FALSE, bin |-> bin, reads |-> reads \cup {bin}]

\* the left boundary of bin: min_val + bin * (max_val - min_val) / num_bins
Boundary(cdf, bin) ==
  Dbl(cdf.min_val * cdf.num_bins + bin * (cdf.max_val - cdf.min_val),
      cdf.num_bins)

\* quantile: the bin, the indices of cdf_bins it read, and res["value"];
\* crashed when a read faulted
quantile(cdf, val, interpolation, heap) ==
  LET scan == QuantileScan(cdf, val, heap, 0, {})
      \* we overshot
      bin == IF DblLess(val, ReadCdf(cdf, scan.bin, heap))
             THEN scan.bin - 1 ELSE scan.bin
      i == Boundary(cdf, bin)
      j == Boundary(cdf, bin + 1)
      hi == ReadCdf(cdf, bin + 1, heap)
      lo == ReadCdf(cdf, bin, heap)
      Res(reads, value) ==
        [crashed |-> FALSE, bin |-> bin, reads |-> reads, value |-> value]
  IN IF scan.crashed
     THEN [crashed |-> TRUE, bin |-> scan.bin, reads |-> scan.reads,
           value |-> NaN]
     ELSE IF interpolation = "linear"
     THEN IF hi = Trap \/ lo = Trap
          THEN [crashed |-> TRUE, bin |-> bin,
                reads |-> scan.reads \cup {bin, bin + 1}, value |-> NaN]
          ELSE IF DblEq(DblSub(hi, lo), Dbl(0, 1))
          THEN Res(scan.reads \cup {bin, bin + 1}, i)
          ELSE Res(scan.reads \cup {bin, bin + 1},
                   DblAdd(i, DblDiv(DblMul(DblSub(j, i), DblSub(val, lo)),
                                    DblSub(hi, lo))))
     ELSE IF interpolation = "lower" THEN Res(scan.reads, i)
     ELSE IF interpolation = "higher" THEN Res(scan.reads, j)
     ELSE IF interpolation = "midpoint"
     THEN Res(scan.reads, DblDiv(DblAdd(i, j), Dbl(2, 1)))
     ELSE \* "nearest"
          Res(scan.reads,
              IF DblLess(DblSub(val, i), DblSub(j, val)) THEN i ELSE j)

\* the expression evaluator calls field_cdf on a histogram ...
call_field_cdf ==
  /\ op.name = "quantile"
  /\ pc[0] = "start"
  /\ lv' = [lv EXCEPT ![0] = field_cdf(op.hist)]
  /\ pc' = [pc EXCEPT ![0] = "cdf"]
  /\ UNCHANGED <<mpi, size, dataset, op, ret>>

\* ... and quantile on the result
call_quantile ==
  /\ op.name = "quantile"
  /\ pc[0] = "cdf"
  /\ LET res == quantile(lv[0], op.val, op.interpolation, op.heap)
     IN /\ ret' = [ret EXCEPT ![0] = res]
        /\ pc' = [pc EXCEPT ![0] = IF res.crashed THEN "crashed" ELSE "returned"]
  /\ UNCHANGED <<mpi, size, dataset, op, lv>>

Interpolations == {"linear", "lower", "higher", "midpoint", "nearest"}

\* count histograms of 1..MaxBins bins
HistBins == UNION {[1..n -> 0..MaxCount] : n \in 1..MaxBins}
HistRanges == {[min_val |-> 0, max_val |-> 6], [min_val |-> -3, max_val |-> -1]}

\* the val arguments tried with a histogram of the given total: the halves of
\* its cdf steps from 0 to just above 1, and NaN
QuantileVals(total) ==
  LET t == IF total = 0 THEN 1 ELSE total
  IN {Dbl(k, 2 * t) : k \in 0..(2 * t + 1)} \cup {NaN}

\* what the words around the cdf array may hold
HeapWords == {Trap, NaN, Dbl(0, 1), Dbl(2, 1)}

InitQuantile ==
  /\ mpi = FALSE
  /\ size = 1
  /\ dataset = <<>>
  /\ \E h \in HistBins, g \in HistRanges, m \in Interpolations, w \in HeapWords :
       \E v \in QuantileVals(SeqSum(h)) :
         op = [name |-> "quantile",
               hist |-> [value |-> h, min_val |-> g.min_val,
                         max_val |-> g.max_val, num_bins |-> Len(h)],
               val |-> v, interpolation |-> m, heap |-> w]
  /\ StartState

NextQuantile == call_field_cdf \/ call_quantile

SpecQuantile == InitQuantile /\ [][NextQuantile]_vars

\* ---- claims about quantile
QBins == 0..(op.hist.num_bins - 1)
QTotal == SeqSum(op.hist.value)
QCdf == field_cdf(op.hist)
QDone == pc[0] \in {"returned", "crashed"}

\* the call was quantile(cdf, cdf[b], ...): val is the double cdf[b]
ValIsCdfOf(b) ==
  \/ DblEq(op.val, QCdf.value[b + 1])
  \/ (op.val = NaN /\ QCdf.value[b + 1] = NaN)

\* min_val + b * (max_val - min_val) / num_bins
LeftBoundaryOf(b) ==
  Dbl(op.hist.min_val * op.hist.num_bins
        + b * (op.hist.max_val - op.hist.min_val), op.hist.num_bins)

\* the lowest bin whose cdf value is that of bin b
FirstBinAt(b) ==
  CHOOSE c \in QBins :
    /\ DblEq(QCdf.value[c + 1], QCdf.value[b + 1])
    /\ \A e \in QBins : DblEq(QCdf.value[e + 1], QCdf.value[b + 1]) => c <= e

\* (C15) quantile with "lower": for every cdf of a count histogram and every
\* bin b, bins of zero count included, quantile(cdf, cdf[b], "lower") returns
\* the left boundary of bin b.
C15_LowerReturnsBinB ==
  \A b \in QBins :
    (QDone /\ op.interpolation = "lower" /\ ValIsCdfOf(b)) =>
      /\ pc[0] = "returned"
      /\ DblEq(ret[0].value, LeftBoundaryOf(b))

\* (C15) as amended: for a histogram with at least one count,
\* quantile(cdf, cdf[b], "lower") returns the left boundary of the lowest bin
\* whose cdf value equals cdf[b]: bin b itself when b = 0 or bin b has a
\* count, and a bin before b when b > 0 and bin b has no count.
C15_LowerReturnsFirstBinOfValue ==
  \A b \in QBins :
    (QDone /\ op.interpolation = "lower" /\ QTotal > 0 /\ ValIsCdfOf(b)) =>
      /\ pc[0] = "returned"
      /\ ret[0].bin = FirstBinAt(b)
      /\ DblEq(ret[0].value, LeftBoundaryOf(FirstBinAt(b)))
      /\ (FirstBinAt(b) = b) <=> (b = 0 \/ op.hist.value[b + 1] > 0)
      /\ DblEq(ret[0].value, LeftBoundaryOf(b)) <=> (FirstBinAt(b) = b)

C15_Witness ==
  /\ pc[0] = "returned"
  /\ op.interpolation = "lower"
  /\ QTotal > 0
  /\ \E b \in QBins :
       /\ b > 0
       /\ op.hist.value[b + 1] = 0
       /\ ValIsCdfOf(b)
       /\ DblEq(ret[0].value, LeftBoundaryOf(FirstBinAt(b)))
       /\ ~DblEq(ret[0].value, LeftBoundaryOf(b))

InUnit(v) == ~DblLess(v, Dbl(0, 1)) /\ ~DblLess(Dbl(1, 1), v) /\ IsNum(v)

\* (C16) quantile on the cdf of a histogram with at least one count, val in
\* [0, 1], any interpolation: every index of the cdf array that is read lies
\* in [0, num_bins), the bin the boundaries come from lies in [0, num_bins),
\* and a val above the last cdf value stops the scan at the last bin.
C16_ReadsStayInside ==
  (QDone /\ QTotal > 0 /\ InUnit(op.val)) =>
    /\ pc[0] = "returned"
    /\ ret[0].reads \subseteq QBins
    /\ ret[0].bin \in QBins
    /\ DblLess(QCdf.value[op.hist.num_bins], op.val) =>
         ret[0].bin = op.hist.num_bins - 1

\* ================================================ logical_index_2d and _3d
MaxDim == 3

\* a caller hands a linear index and the dims to logical_index_2d or _3d
call_logical_index ==
  /\ op.name = "logical_index"
  /\ pc[0] = "start"
  /\ ret' = [ret EXCEPT ![0] =
               [idx |-> IF op.is_2d
                        THEN logical_index_2d(op.index, op.dims)
                        ELSE logical_index_3d(op.index, op.dims)]]
  /\ pc' = [pc EXCEPT ![0] = "returned"]
  /\ UNCHANGED <<mpi, size, dataset, op, lv>>

\* the logical indices of a grid of the given dims, k = 0 only in 2D
LogicalIndices(dims, is_2d) ==
  {<<i, j, k>> : i \in 0..(dims[1] - 1), j \in 0..(dims[2] - 1),
                 k \in IF is_2d THEN {0} ELSE 0..(dims[3] - 1)}

\* linear = i + j*dims.x (+ k*dims.x*dims.y)
Linear(l, dims) == l[1] + l[2] * dims[1] + l[3] * dims[1] * dims[2]

InitIndex ==
  /\ mpi = FALSE
  /\ size = 1
  /\ dataset = <<>>
  /\ \E d \in [1..3 -> 1..MaxDim], b \in BOOLEAN :
       \E l \in LogicalIndices(d, b) :
         op = [name |-> "logical_index", is_2d |-> b, dims |-> d,
               logical |-> l, index |-> Linear(l, d)]
  /\ StartState

NextIndex == call_logical_index

SpecIndex == InitIndex /\ [][NextIndex]_vars

\* (C17) logical_index_3d and logical_index_2d invert the linearisation: for
\* dims with every component >= 1 and 0 <= i < dims.x, 0 <= j < dims.y,
\* 0 <= k < dims.z, logical_index_3d(i + j*dims.x + k*dims.x*dims.y, dims)
\* is (i, j, k) and logical_index_2d(i + j*dims.x, dims) is (i, j).
C17_IndexRoundTrip ==
  pc[0] = "returned" =>
    /\ ret[0].idx[1] = op.logical[1]
    /\ ret[0].idx[2] = op.logical[2]
    /\ ~op.is_2d => ret[0].idx[3] = op.logical[3]

C17_Witness ==
  /\ pc[0] = "returned"
  /\ ~op.is_2d
  /\ op.dims[1] # op.dims[2] /\ op.dims[2] # op.dims[3]
  /\ op.logical[1] > 0 /\ op.logical[2] > 0 /\ op.logical[3] > 0
  /\ ret[0].idx = op.logical

\* ====================================== get_element_indices, explicit meshes
\* the number of vertices of a cell; an unsupported shape is an error
get_num_indices(shape_type) ==
  IF shape_type = "tri" THEN [error |-> FALSE, num |-> 3]
  ELSE IF shape_type = "quad" THEN [error |-> FALSE, num |-> 4]
  ELSE IF shape_type = "tet" THEN [error |-> FALSE, num |-> 4]
  ELSE IF shape_type = "hex" THEN [error |-> FALSE, num |-> 8]
  ELSE IF shape_type = "point" THEN [error |-> FALSE, num |-> 1]
  ELSE [error |-> TRUE, num |-> 0]

\* indices[1..8] of the 3D branch, filled in the order of the assignments
StructuredIndices3d(element_index, vert_dims) ==
  LET i0 == (element_index[3] * vert_dims[2] + element_index[2]) * vert_dims[1]
              + element_index[1]
      i1 == i0 + 1
      i2 == i1 + vert_dims[2]
      i3 == i2 - 1
      i4 == i0 + vert_dims[1] * vert_dims[3]
      i5 == i4 + 1
      i6 == i5 + vert_dims[2]
      i7 == i6 - 1
  IN <<i0, i1, i2, i3, i4, i5, i6, i7>>

\* indices[1..4] of the 2D branch
StructuredIndices2d(element_index, vert_dims) ==
  LET i0 == element_index[2] * vert_dims[1] + element_index[1]
      i1 == i0 + 1
      i2 == i1 + vert_dims[1]
      i3 == i2 - 1
  IN <<i0, i1, i2, i3>>

\* get_element_indices: the vector it leaves in indices, or the error it
\* raises.  n_topo.elements.dims carries has_j / has_k for has_path and for
\* the read of a child that is not there, which throws.
get_element_indices(n_topo, index) ==
  IF n_topo.type = "unstructured"
  THEN LET n == get_num_indices(n_topo.elements.shape)
           offset == index * n.num
       IN IF n.error THEN [error |-> TRUE, indices |-> <<>>]
          ELSE \* resize(num_indices), then num_indices times push_back
               [error |-> FALSE,
                indices |-> [i \in 1..n.num |-> 0]
                              \o [i \in 1..n.num |->
                                    n_topo.elements.connectivity[offset + i]]]
  ELSE LET dims == n_topo.elements.dims
           is_2d == ~dims.has_j
           vert_dims == <<dims.i + 1, dims.j + 1,
                          IF is_2d THEN 0 ELSE dims.k + 1>>
           element_dims == [c \in 1..3 |-> vert_dims[c] - 1]
       IN IF dims.has_j /\ ~dims.has_k
          THEN [error |-> TRUE, indices |-> <<>>]
          ELSE IF is_2d
          THEN [error |-> FALSE,
                indices |-> StructuredIndices2d(
                              logical_index_2d(index, element_dims), vert_dims)]
          ELSE [error |-> FALSE,
                indices |-> StructuredIndices3d(
                              logical_index_3d(index, element_dims), vert_dims)]

\* get_explicit_vert: values/x, /y, /z at index; a coordset without values/z
\* makes the read of it throw
get_explicit_vert(n_coords, index) ==
  IF ~n_coords.has_z \/ index < 0 \/ index >= Len(n_coords.values.x)
  THEN [error |-> TRUE, vert |-> <<0, 0, 0>>]
  ELSE [error |-> FALSE,
        vert |-> <<n_coords.values.x[index + 1], n_coords.values.y[index + 1],
                   n_coords.values.z[index + 1]>>]

\* vert[c] += ptr[c] over conn[i..]
RECURSIVE SumVerts(_, _, _)
SumVerts(n_coords, conn, i) ==
  IF i > Len(conn) THEN <<0, 0, 0>>
  ELSE LET v == get_explicit_vert(n_coords, conn[i]).vert
           rest == SumVerts(n_coords, conn, i + 1)
       IN [c \in 1..3 |-> v[c] + rest[c]]

\* get_explicit_element: the position is vert[c] / num_indices, kept as the
\* sums and the divisor
get_explicit_element(n_coords, n_topo, index) ==
  LET got == get_element_indices(n_topo, index)
      conn == got.indices
      num_indices == Len(conn)
  IN IF got.error
        \/ \E i \in 1..num_indices : get_explicit_vert(n_coords, conn[i]).error
     THEN [error |-> TRUE, conn |-> conn, vert |-> <<0, 0, 0>>, num_indices |-> 0]
     ELSE [error |-> FALSE, conn |-> conn,
           vert |-> SumVerts(n_coords, conn, 1), num_indices |-> num_indices]

\* element_location on a topology with explicit coordinates
element_location_explicit(n_topo, n_coords, index) ==
  IF n_topo.type = "unstructured" \/ n_topo.type = "structured"
  THEN get_explicit_element(n_coords, n_topo, index)
  ELSE [error |-> TRUE, conn |-> <<>>, vert |-> <<0, 0, 0>>, num_indices |-> 0]

call_get_element_indices ==
  /\ op.name = "get_element_indices"
  /\ pc[0] = "start"
  /\ LET res == get_element_indices(op.n_topo, op.index)
     IN /\ ret' = [ret EXCEPT ![0] = res]
        /\ pc' = [pc EXCEPT ![0] = IF res.error THEN "error" ELSE "returned"]
  /\ UNCHANGED <<mpi, size, dataset, op, lv>>

call_element_location ==
  /\ op.name = "element_location"
  /\ pc[0] = "start"
  /\ LET res == element_location_explicit(op.n_topo, op.n_coords, op.index)
     IN /\ ret' = [ret EXCEPT ![0] = res]
        /\ pc' = [pc EXCEPT ![0] = IF res.error THEN "error" ELSE "returned"]
  /\ UNCHANGED <<mpi, size, dataset, op, lv>>

NoDims == [i |-> 0, j |-> 0, k |-> 0, has_j |-> FALSE, has_k |-> FALSE]

\* structured topologies of 1..MaxDim cells a side, 2D (no elements/dims/k)
\* and 3D
StructuredTopos ==
  {[type |-> "structured",
    elements |-> [shape |-> "", connectivity |-> <<>>,
                  dims |-> [i |-> ci, j |-> cj, k |-> 0,
                            has_j |-> TRUE, has_k |-> FALSE]]] :
     ci \in 1..MaxDim, cj \in 1..MaxDim}
  \cup
  {[type |-> "structured",
    elements |-> [shape |-> "", connectivity |-> <<>>,
                  dims |-> [i |-> ci, j |-> cj, k |-> ck,
                            has_j |-> TRUE, has_k |-> TRUE]]] :
     ci \in 1..MaxDim, cj \in 1..MaxDim, ck \in 1..MaxDim}

NumCells(n_topo) ==
  LET dims == n_topo.elements.dims
  IN IF n_topo.type = "structured"
     THEN dims.i * dims.j * (IF dims.has_k THEN dims.k ELSE 1)
     ELSE Len(n_topo.elements.connectivity)
            \div (IF get_num_indices(n_topo.elements.shape).error
                  THEN Len(n_topo.elements.connectivity)
                  ELSE get_num_indices(n_topo.elements.shape).num)

UnstructuredTopo(shape, conn) ==
  [type |-> "unstructured",
   elements |-> [shape |-> shape, connectivity |-> conn, dims |-> NoDims]]

\* one small mesh of every supported shape, and one of a shape that is not
UnstructuredTopos ==
  {UnstructuredTopo("tri", <<1, 2, 3, 0, 1, 3>>),
   UnstructuredTopo("quad", <<0, 1, 4, 3, 1, 2, 5, 4>>),
   UnstructuredTopo("tet", <<1, 2, 3, 4, 0, 1, 2, 3>>),
   UnstructuredTopo("hex", <<0, 1, 2, 3, 4, 5, 6, 7, 4, 5, 6, 7, 8, 9, 10, 11>>),
   UnstructuredTopo("point", <<2, 0, 1>>),
   UnstructuredTopo("line", <<0, 1>>)}

\* explicit coordsets of 12 vertices, with and without values/z
ExplicitCoordsets ==
  {[has_z |-> z,
    values |-> [x |-> [v \in 1..12 |-> o + (v - 1) * (v - 1)],
                y |-> [v \in 1..12 |-> 3 * (v - 1)],
                z |-> [v \in 1..12 |-> (v - 1) % 2]]] :
     z \in BOOLEAN, o \in {0, 5}}

NoCoords == [has_z |-> FALSE, values |-> [x |-> <<>>, y |-> <<>>, z |-> <<>>]]

InitMesh ==
  /\ mpi = FALSE
  /\ size = 1
  /\ dataset = <<>>
  /\ \/ \E t \in StructuredTopos : \E e \in 0..(NumCells(t) - 1) :
          op = [name |-> "get_element_indices", n_topo |-> t,
                n_coords |-> NoCoords, index |-> e]
     \/ \E t \in UnstructuredTopos, c \in ExplicitCoordsets :
          \E e \in 0..(NumCells(t) - 1) :
            op = [name |-> "element_location", n_topo |-> t, n_coords |-> c,
                  index |-> e]
  /\ StartState

NextMesh == call_get_element_indices \/ call_element_location

SpecMesh == InitMesh /\ [][NextMesh]_vars

\* ---- claims about get_element_indices and element_location
MeshDone == pc[0] \in {"returned", "error"}
CellDims == op.n_topo.elements.dims
Is3d == CellDims.has_k
\* the vertex grid has one more vertex a side than cells
Vx == CellDims.i + 1
Vy == CellDims.j + 1
\* the logical index of cell op.index
CellI == op.index % CellDims.i
CellJ == (op.index \div CellDims.i) % CellDims.j
CellK == op.index \div (CellDims.i * CellDims.j)
\* the corners of the cell on its face c (0 bottom, 1 top)
Corners(c) ==
  {(CellI + a) + (CellJ + b) * Vx + (CellK + c) * Vx * Vy :
     a \in {0, 1}, b \in {0, 1}}

\* (C18) get_element_indices on a structured topology, for every valid cell:
\* it returns exactly 4 indices in 2D and 8 in 3D, the vertex-grid linear
\* indices of the cell's corners with vx = ci+1 and vy = cj+1, bottom face
\* first and then the top face; also when the cell dims differ and when
\* elements/dims has no k.
C18_StructuredCorners ==
  (MeshDone /\ op.name = "get_element_indices") =>
    /\ pc[0] = "returned"
    /\ Len(ret[0].indices) = IF Is3d THEN 8 ELSE 4
    /\ {ret[0].indices[n] : n \in 1..4} = Corners(0)
    /\ Is3d => {ret[0].indices[n] : n \in 5..8} = Corners(1)

VertsPerCell == get_num_indices(op.n_topo.elements.shape).num
\* conn[index*n .. index*n + n - 1]
ConnSlice ==
  [i \in 1..VertsPerCell |->
     op.n_topo.elements.connectivity[op.index * VertsPerCell + i]]
SliceSum(c) ==
  SumOver([i \in 1..VertsPerCell |->
             IF c = 1 THEN op.n_coords.values.x[ConnSlice[i] + 1]
             ELSE IF c = 2 THEN op.n_coords.values.y[ConnSlice[i] + 1]
             ELSE op.n_coords.values.z[ConnSlice[i] + 1]], 1..VertsPerCell)

\* (C19) element_location on an unstructured topology of a shape with n
\* vertices a cell, for every valid cell: the vertex list used has exactly
\* the n entries conn[index*n .. index*n+n-1], and the position returned is
\* the sum of those n vertex positions divided by n.
C19_CentroidOfSlice ==
  (pc[0] = "returned" /\ op.name = "element_location") =>
    /\ ret[0].conn = ConnSlice
    /\ \A c \in 1..3 :
         ret[0].vert[c] * VertsPerCell = SliceSum(c) * ret[0].num_indices

\* ======================================= the collective calls of the queries
\* has_field, has_topology, field_assoc, field_type, spatial_dims, field_sum,
\* field_histogram and field_topology, each called by all ranks on a dataset
\* whose domains are spread over them in any way
CollectiveOps ==
  {[name |-> n] : n \in {"has_field", "has_topology", "field_assoc",
                         "field_type", "spatial_dims", "field_sum",
                         "field_topology"}}
  \cup {[name |-> "field_histogram", min_val |-> 0, max_val |-> 2, num_bins |-> 2]}

\* a domain without the field and the topology, and two that hold both and
\* declare them differently
CollectiveContents ==
  {Blank,
   [Blank EXCEPT !.has = TRUE, !.vals = <<0, 1>>, !.topo = <<"a">>,
                 !.hastopo = TRUE],
   [Blank EXCEPT !.has = TRUE, !.assoc = "element", !.dtype = "int32",
                 !.vals = <<1>>, !.topo = <<"m", "2">>, !.hastopo = TRUE,
                 !.coords = [type |-> "explicit", is3d |-> TRUE,
                             dtype |-> "float64"]]}

InitCollective == InitWith(CollectiveOps, CollectiveContents)

NextCollective ==
  \/ NextHas
  \/ NextAssoc
  \/ NextType
  \/ NextDims
  \/ NextSum
  \/ NextHist
  \/ NextTopo

SpecCollective == InitCollective /\ [][NextCollective]_vars

Finished(r) == pc[r] \in {"returned", "error"}
AllFinished == \A r \in Live : Finished(r)

\* two ranks that have both left their local code are at the same exchange
\* of the same call, or have both ended it the same way
SameCallSite ==
  \A r, q \in Live : (pc[r] # "start" /\ pc[q] # "start") => pc[r] = pc[q]

\* (C20) has_field, has_topology, field_assoc, field_type, spatial_dims,
\* field_sum, field_histogram and field_topology: the exchanges a rank makes
\* before it returns or raises do not depend on its local domains, so every
\* exchange is joined by all ranks and, all ranks having made the same call,
\* no rank stays blocked: until all ranks have returned or raised, a local
\* step or an exchange that all ranks have reached can be taken.
C20_NoRankStaysBlocked ==
  /\ SameCallSite
  /\ AllFinished \/ ENABLED NextCollective

\* a call under MPI that all ranks have ended although one of them owns no
\* domain and another owns one that holds the field and the topology
C20_Witness ==
  /\ mpi /\ size > 1
  /\ AllFinished
  /\ \E r, q \in Live :
       /\ LocalDomains(r) = <<>>
       /\ \E i \in 1..Len(dataset) :
            dataset[i].owner = q /\ dataset[i].has /\ dataset[i].hastopo

\* ============================== the two-vote queries: field_assoc, spatial_dims
InitVotes == InitAssoc \/ InitDims

NextVotes == NextAssoc \/ NextDims

SpecVotes == InitVotes /\ [][NextVotes]_vars

\* the domains that hold what the query names
Named == IF op.name = "field_assoc" THEN Holding ELSE WithTopo

\* (C21) field_assoc and spatial_dims raise by the two reduced votes only:
\* in every call made by all ranks either every rank raises the disagreement
\* error or none does, and when none does all ranks return the same value,
\* a rank that holds none of the named field or topology included.
C21_AllRaiseOrAllReturnSame ==
  \A r, q \in Live :
    (Finished(r) /\ Finished(q)) =>
      /\ pc[r] = pc[q]
      /\ pc[r] = "returned" => ret[r] = ret[q]

\* all ranks of a call under MPI have returned one value, which is not the
\* one a rank without the name would find by itself ("vertex", 2), and one
\* of the ranks holds no domain with the name
C21_Witness ==
  /\ mpi /\ size > 1
  /\ \A r \in Live : pc[r] = "returned"
  /\ \A r \in Live : ret[r].value \in {"element", 3}
  /\ \E r \in Live : \A i \in Named : dataset[i].owner # r
  /\ Named # {}

====
